---- MODULE Spec2Model ----
(***************************************************************************)
(* Index notation for tensors: sage.tensor.modules.tensor_with_indices.    *)
(*                                                                         *)
(* A notation string is a sequence of one-character strings.  Positions    *)
(* handed to the tensor operations are zero-based, as in the source.  A    *)
(* tensor is known by its type (p,q), by the original axis that sits at    *)
(* each of its current positions, and by the operations applied to it.     *)
(***************************************************************************)
EXTENDS Integers, Sequences, FiniteSets, TLC

VARIABLES pc, tensor, indices, self, exc, other, ret

vars == <<pc, tensor, indices, self, exc, other, ret>>

(***************************************************************************)
(* Bounds of the model.                                                    *)
(***************************************************************************)
MaxRawLen == 3
MaxRank == 2
MaxSyms == 4
MaxPlain == 3
MaxMulSyms == 2

\* the ASCII letters a-z, A-Z the model draws index names from
Letters == {"a", "b", "c"}
\* a character outside the authorised list (an accented letter, a digit, ...)
OtherChar == "~"
RawChars == {"a", "b", ".", "(", ")", "[", "]", "^", "_", "{", "}", "\n", OtherChar}

None == [none |-> TRUE]
NoExc == [cls |-> "none", msg |-> ""]

(***************************************************************************)
(* Python string primitives.                                               *)
(***************************************************************************)
Max(a, b) == IF a >= b THEN a ELSE b

\* str.replace(c, '')
Replace(s, c) == SelectSeq(s, LAMBDA x : x # c)

\* str.count(c)
Count(s, c) == Len(SelectSeq(s, LAMBDA x : x = c))

\* set(s)
SetOf(s) == {s[i] : i \in DOMAIN s}

\* str.index(c), zero-based; c occurs in s
Index(s, c) == (CHOOSE i \in 1..Len(s) : s[i] = c /\ \A j \in 1..(i-1) : s[j] # c) - 1

\* s[a:b] with zero-based a <= b
Slice(s, a, b) == IF b > a THEN SubSeq(s, a + 1, b) ELSE <<>>

\* str.split(c)
RECURSIVE Split(_, _)
Split(s, c) ==
    IF c \notin SetOf(s) THEN <<s>>
    ELSE LET i == Index(s, c)
         IN  <<Slice(s, 0, i)>> \o Split(Slice(s, i + 1, Len(s)), c)

\* range(a, b) as a tuple
Range(a, b) == IF b > a THEN [i \in 1..(b - a) |-> a + i - 1] ELSE <<>>

(***************************************************************************)
(* The regular expressions of __init__.                                    *)
(***************************************************************************)
\* a character class without the wildcard: [a-zA-Z]
IsLetterChar(c) == c \in Letters

\* [a-zA-Z.]
IsIndexChar(c) == c \in Letters \cup {"."}

\* length of the longest run of [a-zA-Z.] that starts at position i (1-based)
Run(s, i) ==
    LET ks == {k \in 0..(Len(s) - i + 1) : \A j \in i..(i + k - 1) : IsIndexChar(s[j])}
    IN  CHOOSE k \in ks : \A m \in ks : m <= k

\* one alternative of allowed_pattern matched at position i: the positions
\* right after the match
AlternativeEnds(s, i) ==
    LET group(open, close) ==
            IF i <= Len(s) /\ s[i] = open
            THEN {i + k + 2 : k \in {n \in 2..Run(s, i + 1) :
                                       i + n + 1 <= Len(s) /\ s[i + n + 1] = close}}
            ELSE {}
    IN  group("(", ")") \cup group("[", "]") \cup {i + k : k \in 1..Run(s, i)}

\* allowed_pattern = (...|...|...)* matched at position i
RECURSIVE AllowedEnds(_, _)
AllowedEnds(s, i) ==
    {i} \cup UNION {AllowedEnds(s, j) : j \in AlternativeEnds(s, i)}

\* '$' without re.MULTILINE: the end of the string, or just before a newline
\* that ends the string
AtDollar(s, j) == j = Len(s) + 1 \/ (j = Len(s) /\ s[j] = "\n")

\* re.match(con_then_cov, s) is not None
MatchConThenCov(s) ==
    \E i \in {1} \cup (IF Len(s) >= 1 /\ s[1] = "^" THEN {2} ELSE {}) :
      \E j \in AllowedEnds(s, i) :
        \/ AtDollar(s, j)
        \/ /\ j <= Len(s)
           /\ s[j] = "_"
           /\ \E k \in AllowedEnds(s, j + 1) : AtDollar(s, k)

\* re.match(cov_then_con, s) is not None
MatchCovThenCon(s) ==
    /\ Len(s) >= 1
    /\ s[1] = "_"
    /\ \E j \in AllowedEnds(s, 2) :
        \/ AtDollar(s, j)
        \/ /\ j <= Len(s)
           /\ s[j] = "^"
           /\ \E k \in AllowedEnds(s, j + 1) : AtDollar(s, k)

\* indices.replace('{','').replace('}','')
StripBraces(s) == Replace(Replace(s, "{"), "}")

\* the split of the notation into its contravariant and covariant sections
SplitIndices(s) ==
    IF MatchConThenCov(s)
    THEN LET pieces == Split(Replace(s, "^"), "_")
         IN  IF Len(pieces) = 2
             THEN [con |-> pieces[1], cov |-> pieces[2]]
             ELSE [con |-> Replace(s, "^"), cov |-> <<>>]
    ELSE LET pieces == Split(Tail(s), "^")
         IN  IF Len(pieces) = 2
             THEN [con |-> pieces[2], cov |-> pieces[1]]
             ELSE [con |-> <<>>, cov |-> Tail(s)]

\* con.replace("(","").replace(")","").replace("[","").replace("]","")
WithoutSym(s) == Replace(Replace(Replace(Replace(s, "("), ")"), "["), "]")

\* a test of repeated indices that forgets the wildcards
HasRepeatedNoWildcard(w) == Len(w) # Cardinality(SetOf(w))

\* len(w) != len(set(w)) + max(w.count(".")-1, 0)
HasRepeated(w) == Len(w) # Cardinality(SetOf(w)) + Max(Count(w, ".") - 1, 0)

\* re.search(first_sym_regex, s): the leftmost group, with sym1 and sym2
FirstSym(s) ==
    LET closer(i) == i + 1 + Run(s, i + 1)
        starts == {i \in 1..Len(s) :
                     /\ s[i] \in {"(", "["}
                     /\ closer(i) <= Len(s)
                     /\ s[closer(i)] \in {")", "]"}}
    IN  IF starts = {} THEN None
        ELSE LET i == CHOOSE x \in starts : \A y \in starts : x <= y
             IN  [sym1 |-> i - 1, sym2 |-> closer(i) - 1, open |-> s[i]]

\* con[:sym1] + con[sym1+1:sym2] + con[sym2+1:]
Ungroup(s, sym1, sym2) ==
    Slice(s, 0, sym1) \o Slice(s, sym1 + 1, sym2) \o Slice(s, sym2 + 1, Len(s))

(***************************************************************************)
(* The tensor the expression wraps.                                        *)
(***************************************************************************)
\* a fresh tensor of type (p,q): axis i sits at position i
NewTensor(p, q) == [type |-> <<p, q>>, axes |-> Range(0, p + q), hist |-> <<>>]

Call(t, name, pos) ==
    [op |-> name, pos |-> pos, type |-> t.type,
     axes |-> [k \in 1..Len(pos) |->
                 IF pos[k] >= 0 /\ pos[k] < Len(t.axes) THEN t.axes[pos[k] + 1] ELSE -1]]

\* tensor.symmetrize(*pos): same type, same axes
Symmetrize(t, pos) == [t EXCEPT !.hist = Append(@, Call(t, "symmetrize", pos))]

\* tensor.antisymmetrize(*pos)
Antisymmetrize(t, pos) == [t EXCEPT !.hist = Append(@, Call(t, "antisymmetrize", pos))]

\* tensor.trace(pos1, pos2): the two positions are removed, one of each kind
Trace(t, pos1, pos2) ==
    [type |-> <<t.type[1] - 1, t.type[2] - 1>>,
     axes |-> SelectSeq([k \in 1..Len(t.axes) |->
                            IF k - 1 \in {pos1, pos2} THEN -1 ELSE t.axes[k]],
                        LAMBDA a : a # -1),
     hist |-> Append(t.hist, Call(t, "trace", <<pos1, pos2>>))]

(***************************************************************************)
(* TensorWithIndices.__init__                                              *)
(***************************************************************************)
\* symmetrize for a group opened by '(', antisymmetrize for one opened by '['
ApplySym(t, open, pos) ==
    IF open = "(" THEN Symmetrize(t, pos) ELSE Antisymmetrize(t, pos)

\* the loop over the groups of the contravariant section; one turn of the
\* loop is ConSymStep, first_sym being the match of first_sym_regex
RECURSIVE ConSymLoop(_, _, _)
\* a turn of the loop that takes the closing delimiter for an index
ConSymStepOneMore(t, con, first_sym) ==
    ConSymLoop(ApplySym(t, first_sym.open, Range(first_sym.sym1, first_sym.sym2)),
               Ungroup(con, first_sym.sym1, first_sym.sym2),
               TRUE)

ConSymStep(t, con, first_sym) ==
    ConSymLoop(ApplySym(t, first_sym.open, Range(first_sym.sym1, first_sym.sym2 - 1)),
               Ungroup(con, first_sym.sym1, first_sym.sym2),
               TRUE)

ConSymLoop(t, con, changed) ==
    IF FirstSym(con) = None THEN [tensor |-> t, con |-> con, changed |-> changed]
    ELSE ConSymStep(t, con, FirstSym(con))

\* the loop over the groups of the covariant section
RECURSIVE CovSymLoop(_, _, _)
CovSymStep(t, cov, first_sym) ==
    CovSymLoop(ApplySym(t, first_sym.open, Range(t.type[1] + first_sym.sym1,
                                                 t.type[1] + first_sym.sym2 - 1)),
               Ungroup(cov, first_sym.sym1, first_sym.sym2),
               TRUE)

CovSymLoop(t, cov, changed) ==
    IF FirstSym(cov) = None THEN [tensor |-> t, cov |-> cov, changed |-> changed]
    ELSE CovSymStep(t, cov, FirstSym(cov))

\* the positions (1-based) of self._con the for loop appends a pair for
SharedPositions(con, cov) ==
    SelectSeq([i \in 1..Len(con) |-> i],
              LAMBDA i : con[i] # "." /\ con[i] \in SetOf(cov))

\* the pair [pos1, pos2] appended for the index ind
ContractionPair(t, con, cov, ind) == <<Index(con, ind), t.type[1] + Index(cov, ind)>>

\* contraction_pair_list as the for loop builds it
ContractionPairList(t, con, cov) ==
    [k \in 1..Len(SharedPositions(con, cov)) |->
       ContractionPair(t, con, cov, con[SharedPositions(con, cov)[k]])]

\* a renumbering that forgets the contravariant position removed
RenumberCovOnly(pair, pos1, pos2) ==
    <<IF pair[1] > pos1 THEN pair[1] - 1 ELSE pair[1],
      IF pair[2] > pos2 THEN pair[2] - 1 ELSE pair[2]>>

\* the renumbering of one pending pair after trace(pos1, pos2)
Renumber(pair, pos1, pos2) ==
    <<IF pair[1] > pos1 THEN pair[1] - 1 ELSE pair[1],
      (IF pair[2] > pos2 THEN pair[2] - 1 ELSE pair[2]) - 1>>

\* the while loop over contraction_pair_list; one turn of the loop is
\* TraceStep, [pos1, pos2] being the pair popped
RECURSIVE TraceLoop(_, _, _, _, _)
\* a turn of the loop that does not set self._changed
TraceStepUnflagged(t, con, cov, rest, pos1, pos2) ==
    TraceLoop(Trace(t, pos1, pos2),
              Replace(con, con[pos1 + 1]),
              Replace(cov, con[pos1 + 1]),
              [k \in 1..Len(rest) |-> Renumber(rest[k], pos1, pos2)],
              FALSE)

TraceStep(t, con, cov, rest, pos1, pos2) ==
    TraceLoop(Trace(t, pos1, pos2),
              Replace(con, con[pos1 + 1]),
              Replace(cov, con[pos1 + 1]),
              [k \in 1..Len(rest) |-> Renumber(rest[k], pos1, pos2)],
              TRUE)

TraceLoop(t, con, cov, list, changed) ==
    IF list = <<>> THEN [tensor |-> t, con |-> con, cov |-> cov, changed |-> changed]
    ELSE TraceStep(t, con, cov, SubSeq(list, 1, Len(list) - 1),
                   list[Len(list)][1], list[Len(list)][2])

Raise(cls, msg) == [exc |-> [cls |-> cls, msg |-> msg], self |-> None]

\* __init__ from the treatment of the self-contractions on: b is the state
\* after the covariant groups
InitContract(con, b) ==
    [exc |-> NoExc,
     self |-> TraceLoop(b.tensor, con, b.cov,
                        ContractionPairList(b.tensor, con, b.cov), b.changed)]

\* __init__ from the covariant groups on: a is the state after the
\* contravariant groups
InitCovSym(a, cov) == InitContract(a.con, CovSymLoop(a.tensor, cov, a.changed))

\* checks that leave the number of covariant indices unchecked
InitChecksConOnly(t, con, cov, con_without_sym, cov_without_sym) ==
    IF HasRepeated(con_without_sym) \/ HasRepeated(cov_without_sym)
    THEN Raise("ValueError",
               "Index conventions not satisfied : repeated indices of same type")
    ELSE IF Len(con_without_sym) # t.type[1]
    THEN Raise("IndexError",
               "number of contravariant indices not compatible with the tensor type")
    ELSE InitCovSym(ConSymLoop(t, con, FALSE), cov)

\* __init__ from the check of repeated indices on
InitChecks(t, con, cov, con_without_sym, cov_without_sym) ==
    IF HasRepeated(con_without_sym) \/ HasRepeated(cov_without_sym)
    THEN Raise("ValueError",
               "Index conventions not satisfied : repeated indices of same type")
    ELSE IF Len(con_without_sym) # t.type[1]
    THEN Raise("IndexError",
               "number of contravariant indices not compatible with the tensor type")
    ELSE IF Len(cov_without_sym) # t.type[2]
    THEN Raise("IndexError",
               "number of covavariant indices not compatible with the tensor type")
    ELSE InitCovSym(ConSymLoop(t, con, FALSE), cov)

InitSections(t, parts) ==
    InitChecks(t, parts.con, parts.cov, WithoutSym(parts.con), WithoutSym(parts.cov))

\* __init__ once the braces are gone
InitParse(t, s) ==
    IF ~MatchConThenCov(s) /\ ~MatchCovThenCon(s)
    THEN Raise("ValueError", "Index conventions not satisfied")
    ELSE InitSections(t, SplitIndices(s))

\* TensorWithIndices(t, s): the exception raised, or the object built
\* (_tensor, _con, _cov, _changed)
InitResult(t, s) == InitParse(t, StripBraces(s))

(***************************************************************************)
(* The calls.                                                              *)
(***************************************************************************)
\* no call made yet: the tensor t exists
Start(t) ==
    /\ pc = "idle"
    /\ tensor = t
    /\ indices = <<>>
    /\ self = None
    /\ exc = NoExc
    /\ other = None
    /\ ret = None

\* TensorWithIndices(tensor, s)
Construct(s) ==
    /\ indices' = s
    /\ \E r \in {InitResult(tensor, s)} :
         /\ self' = r.self
         /\ exc' = r.exc
         /\ pc' = IF r.exc = NoExc THEN "made" ELSE "raised"
    /\ UNCHANGED <<tensor, other, ret>>

\* self.update()
Update ==
    /\ pc = "made"
    /\ ret' = IF self.changed THEN [kind |-> "tensor", value |-> self.tensor]
                              ELSE [kind |-> "self", value |-> self]
    /\ pc' = "updated"
    /\ UNCHANGED <<tensor, indices, self, exc, other>>

IsExpression(x) == "con" \in DOMAIN x

\* common positions that take the wildcard for an index
CommonWithWildcard(mine, theirs) ==
    SelectSeq([i \in 1..Len(mine) |-> i], LAMBDA i : mine[i] \in SetOf(theirs))

\* the positions (1-based) of mine that hold an index, not '.', found in theirs
Common(mine, theirs) ==
    SelectSeq([i \in 1..Len(mine) |-> i],
              LAMBDA i : mine[i] # "." /\ mine[i] \in SetOf(theirs))

\* the axis pairs of the first loop of __mul__ (over self._con)
ConPairs(x, y) ==
    [k \in 1..Len(Common(x.con, y.cov)) |->
       <<Index(x.con, x.con[Common(x.con, y.cov)[k]]),
         y.tensor.type[1] + Index(y.cov, x.con[Common(x.con, y.cov)[k]])>>]

\* pairs of the second loop without the shift to self's covariant positions
CovPairsUnshifted(x, y) ==
    [k \in 1..Len(Common(x.cov, y.con)) |->
       <<Index(x.cov, x.cov[Common(x.cov, y.con)[k]]),
         Index(y.con, x.cov[Common(x.cov, y.con)[k]])>>]

\* the axis pairs of the second loop of __mul__ (over self._cov)
CovPairs(x, y) ==
    [k \in 1..Len(Common(x.cov, y.con)) |->
       <<x.tensor.type[1] + Index(x.cov, x.cov[Common(x.cov, y.con)[k]]),
         Index(y.con, x.cov[Common(x.cov, y.con)[k]])>>]

\* what __mul__ returns for the pairs found
MulReturn(x, y, contraction_pairs) ==
    IF contraction_pairs = <<>>
    THEN [kind |-> "product", left |-> x.tensor, right |-> y.tensor,
          pos1 |-> <<>>, pos2 |-> <<>>]
    ELSE [kind |-> "contract", left |-> x.tensor, right |-> y.tensor,
          pos1 |-> [i \in 1..Len(contraction_pairs) |-> contraction_pairs[i][1]],
          pos2 |-> [i \in 1..Len(contraction_pairs) |-> contraction_pairs[i][2]]]

\* self.__mul__(other): the exception raised, or the value returned
MulResult(x, y) ==
    IF ~IsExpression(y)
    THEN [exc |-> [cls |-> "TypeError",
                   msg |-> "the second item of * must be a tensor with specified indices"],
          ret |-> None]
    ELSE IF Common(x.con, y.con) # <<>>
    THEN [exc |-> [cls |-> "IndexError", msg |-> "appears twice in a contravariant position"],
          ret |-> None]
    ELSE IF Common(x.cov, y.cov) # <<>>
    THEN [exc |-> [cls |-> "IndexError", msg |-> "appears twice in a covariant position"],
          ret |-> None]
    ELSE [exc |-> NoExc, ret |-> MulReturn(x, y, ConPairs(x, y) \o CovPairs(x, y))]

\* self * other
Mul ==
    /\ pc = "pair"
    /\ \E r \in {MulResult(self, other)} :
         /\ exc' = r.exc
         /\ ret' = r.ret
         /\ pc' = IF r.exc = NoExc THEN "multiplied" ELSE "raised"
    /\ UNCHANGED <<tensor, indices, self, other>>

(***************************************************************************)
(* The inputs of the calls.                                                *)
(***************************************************************************)
\* the index symbols a well-formed section is written with
Symbols == Letters \cup {"."}

NoLetterTwice(w) == \A i, j \in 1..Len(w) : (i # j /\ w[i] = w[j]) => w[i] = "."

\* the runs of n index symbols in which no letter comes twice
PlainSections(n) == {w \in [1..n -> Symbols] : NoLetterTwice(w)}

\* the ways of writing the run w with groups of two or more symbols
RECURSIVE Groupings(_)
Groupings(w) ==
    IF w = <<>> THEN {<<>>}
    ELSE {<<Head(w)>> \o r : r \in Groupings(Tail(w))}
         \cup UNION {{b[1] \o SubSeq(w, 1, k) \o b[2] \o r :
                        b \in {<<(<<"(">>), (<<")">>)>>, <<(<<"[">>), (<<"]">>)>>},
                        r \in Groupings(SubSeq(w, k + 1, Len(w)))}
                     : k \in 2..Len(w)}

\* the ways of writing the sections con and cov as one notation
Writings(con, cov) ==
    {con \o <<"_">> \o cov,
     <<"^", "{">> \o con \o <<"}", "_", "{">> \o cov \o <<"}">>,
     <<"_">> \o cov \o <<"^">> \o con}
    \cup (IF cov = <<>> THEN {con, <<"^">> \o con} ELSE {})

\* every string of at most MaxRawLen characters
RawStrings == UNION {[1..n -> RawChars] : n \in 0..MaxRawLen}

Tensors == {NewTensor(p, q) : p \in 0..MaxRank, q \in 0..MaxRank}

Init == \E t \in Tensors : Start(t)

ConstructRaw ==
    /\ pc = "idle"
    /\ \E s \in RawStrings : Construct(s)

LooseSymbols == {"a", "."}

\* TensorWithIndices(tensor, s) with sections of at most MaxRawLen index
\* symbols in all, in which a letter may come twice, whatever the tensor
ConstructLoose ==
    /\ pc = "idle"
    /\ \E n \in {m \in (0..MaxRawLen) \X (0..MaxRawLen) : m[1] + m[2] <= MaxRawLen} :
         \E u \in [1..n[1] -> LooseSymbols], v \in [1..n[2] -> LooseSymbols] :
           \E con \in Groupings(u), cov \in Groupings(v) :
             \E s \in Writings(con, cov) : Construct(s)

Next == ConstructRaw \/ ConstructLoose

Spec == Init /\ [][Next]_vars

\* TensorWithIndices(tensor, s) with a well-formed notation of at most MaxSyms
\* index symbols, for a tensor of the type it asks for
ConstructNotation ==
    /\ pc = "idle"
    /\ tensor.type[1] + tensor.type[2] <= MaxSyms
    /\ \E u \in PlainSections(tensor.type[1]), v \in PlainSections(tensor.type[2]) :
         \E con \in Groupings(u), cov \in Groupings(v) :
           \E s \in Writings(con, cov) : Construct(s)

\* the tensors of at most n indices
TensorsUpTo(n) == {NewTensor(m[1], m[2]) : m \in {k \in (0..n) \X (0..n) : k[1] + k[2] <= n}}

\* TensorWithIndices(tensor, s) with a well-formed notation without groups, for
\* a tensor of at most MaxPlain indices of each kind
ConstructPlain ==
    /\ pc = "idle"
    /\ tensor.type[1] <= MaxPlain
    /\ tensor.type[2] <= MaxPlain
    /\ \E con \in PlainSections(tensor.type[1]), cov \in PlainSections(tensor.type[2]) :
         \E s \in Writings(con, cov) : Construct(s)

InitNotation ==
    \E t \in TensorsUpTo(MaxSyms)
              \cup {NewTensor(p, q) : p \in 0..MaxPlain, q \in 0..MaxPlain} : Start(t)

NextNotation == ConstructNotation \/ ConstructPlain \/ Update

SpecNotation == InitNotation /\ [][NextNotation]_vars

\* the ways of writing the operand of a product: a notation without groups,
\* which a newline may end
OperandWritings(con, cov) ==
    {con \o <<"_">> \o cov,
     IF cov = <<>> THEN con \o <<"\n">> ELSE con \o <<"_">> \o cov \o <<"\n">>}

\* the type of the tensor the notation s is accepted for
TypeFor(s) ==
    <<Len(WithoutSym(SplitIndices(StripBraces(s)).con)),
      Len(WithoutSym(SplitIndices(StripBraces(s)).cov))>>

\* the operands of a product: TensorWithIndices(t, s) with a notation of at
\* most MaxMulSyms index symbols and a tensor of the type it is accepted for
OperandCalls ==
    UNION {UNION {{[tensor |-> NewTensor(TypeFor(s)[1], TypeFor(s)[2]), indices |-> s] :
                     s \in OperandWritings(con, cov)}
                  : con \in PlainSections(n[1]), cov \in PlainSections(n[2])}
           : n \in {m \in (0..MaxMulSyms) \X (0..MaxMulSyms) : m[1] + m[2] <= MaxMulSyms}}

\* a right operand that is no TensorWithIndices (a tensor, a number)
NotAnExpression == [value |-> "tensor"]

ConstructSelf ==
    /\ pc = "idle"
    /\ \E c \in OperandCalls : c.tensor = tensor /\ Construct(c.indices)

\* the right operand is made: TensorWithIndices(t, s), or some other value
ConstructOther ==
    /\ pc = "made"
    /\ \E y \in {InitResult(c.tensor, c.indices).self : c \in OperandCalls}
                \cup {NotAnExpression} :
         other' = y
    /\ pc' = "pair"
    /\ UNCHANGED <<tensor, indices, self, exc, ret>>

NextMul == ConstructSelf \/ ConstructOther \/ Mul

InitMul == \E t \in TensorsUpTo(MaxMulSyms + 1) : Start(t)

SpecMul == InitMul /\ [][NextMul]_vars

(***************************************************************************)
(* Resolved results compared: x.update() == y.update()                     *)
(***************************************************************************)
MaxWildSyms == 3

\* x.update(): the tensor wrapped when x._changed, else x itself
UpdateResult(x) ==
    IF x.changed THEN [kind |-> "tensor", value |-> x.tensor]
                 ELSE [kind |-> "self", value |-> x]

\* x.__eq__(y)
Eq(x, y) ==
    IF ~IsExpression(y) THEN FALSE
    ELSE x.tensor = y.tensor /\ x.con = y.con /\ x.cov = y.cov

\* a == b for two values update() returned: __eq__ of the expression a, or
\* the equality of the tensor a with b
ResultsEqual(a, b) ==
    IF a.kind = "self" THEN Eq(a.value, b.value)
    ELSE b.kind = "tensor" /\ a.value = b.value

\* the notation s with '.' for every letter it holds once
Wildcarded(s) ==
    [i \in 1..Len(s) |-> IF s[i] \in Letters /\ Count(s, s[i]) = 1 THEN "." ELSE s[i]]

\* TensorWithIndices(tensor, w) for the wildcarded notation w of the first call
ConstructWildcarded ==
    /\ pc = "made"
    /\ \E r \in {InitResult(tensor, Wildcarded(indices))} :
         /\ other' = r.self
         /\ exc' = r.exc
         /\ pc' = IF r.exc = NoExc THEN "wild" ELSE "raised"
    /\ UNCHANGED <<tensor, indices, self, ret>>

\* self.update() == other.update()
CompareResolved ==
    /\ pc = "wild"
    /\ ret' = [kind |-> "bool",
               value |-> ResultsEqual(UpdateResult(self), UpdateResult(other))]
    /\ pc' = "compared"
    /\ UNCHANGED <<tensor, indices, self, exc, other>>

InitWild == \E t \in TensorsUpTo(MaxWildSyms) : Start(t)

NextWild == ConstructNotation \/ ConstructSelf \/ ConstructWildcarded \/ CompareResolved

SpecWild == InitWild /\ [][NextWild]_vars

(***************************************************************************)
(* __rmul__, __pos__ and __neg__                                           *)
(***************************************************************************)
MaxUnarySyms == 3

\* the numbers an expression is multiplied by
Scalars == {0, 2}

\* -t: the negative of the tensor t, of the same type; -(-t) is t
Neg(t) ==
    IF t.hist # <<>> /\ t.hist[Len(t.hist)].op = "neg"
    THEN [t EXCEPT !.hist = SubSeq(@, 1, Len(@) - 1)]
    ELSE [t EXCEPT !.hist = Append(@, [op |-> "neg", pos |-> <<>>,
                                       type |-> t.type, axes |-> <<>>])]

\* +t: a tensor equal to t
Pos(t) == t

\* k*t: the tensor t multiplied by the number k, of the same type
Scale(k, t) ==
    [t EXCEPT !.hist = Append(@, [op |-> "rmul", pos |-> <<k>>,
                                  type |-> t.type, axes |-> <<>>])]

\* self._con + '_' + self._cov
PartsNotation(x) == x.con \o <<"_">> \o x.cov

\* a negation that wraps the tensor as it is
NegResultSameTensor(x) == InitResult(x.tensor, PartsNotation(x))

\* x.__neg__(): the exception raised, or the object built
NegResult(x) == InitResult(Neg(x.tensor), PartsNotation(x))

\* x.__pos__()
PosResult(x) == InitResult(Pos(x.tensor), PartsNotation(x))

\* x.__rmul__(k)
RmulResult(x, k) == InitResult(Scale(k, x.tensor), PartsNotation(x))

\* other = op(self), r being what the operator built or raised
Unary(r, done) ==
    /\ other' = r.self
    /\ exc' = r.exc
    /\ pc' = IF r.exc = NoExc THEN done ELSE "raised"
    /\ UNCHANGED <<tensor, indices, self, ret>>

\* -self
NegSelf ==
    /\ pc = "made"
    /\ \E r \in {NegResult(self)} : Unary(r, "negated")

\* +self
PosSelf ==
    /\ pc = "made"
    /\ \E r \in {PosResult(self)} : Unary(r, "plussed")

\* k * self
RmulSelf ==
    /\ pc = "made"
    /\ \E k \in Scalars : \E r \in {RmulResult(self, k)} : Unary(r, "scaled")

\* -(-self): the negative of the expression -self, kept in other
NegAgain ==
    /\ pc = "negated"
    /\ \E r \in {NegResult(other)} :
         /\ ret' = r.self
         /\ exc' = r.exc
         /\ pc' = IF r.exc = NoExc THEN "negated twice" ELSE "raised"
    /\ UNCHANGED <<tensor, indices, self, other>>

InitUnary == \E t \in TensorsUpTo(MaxUnarySyms) : Start(t)

NextUnary ==
    ConstructNotation \/ ConstructSelf \/ NegSelf \/ PosSelf \/ RmulSelf \/ NegAgain

SpecUnary == InitUnary /\ [][NextUnary]_vars

(***************************************************************************)
(* What the claims speak of.                                               *)
(***************************************************************************)
GroupPunct == {"(", ")", "[", "]"}

FormatError == [cls |-> "ValueError", msg |-> "Index conventions not satisfied"]

RepeatedError ==
    [cls |-> "ValueError",
     msg |-> "Index conventions not satisfied : repeated indices of same type"]

\* the constructor was called and returned
Constructed == pc \in {"made", "updated"}

\* the two sections of the notation given, and their index symbols
ConSection == SplitIndices(StripBraces(indices)).con
CovSection == SplitIndices(StripBraces(indices)).cov
Unpunctuated(w) == SelectSeq(w, LAMBDA c : c \notin GroupPunct)
ConSymbols == Unpunctuated(ConSection)
CovSymbols == Unpunctuated(CovSection)

\* the position (zero-based) of the symbol c, which w holds once
Where(w, c) == CHOOSE i \in 0..(Len(w) - 1) : w[i + 1] = c

\* the symbols, the wildcard apart, that a and b share
SharedBetween(a, b) == {c \in SetOf(a) \cap SetOf(b) : c # "."}

HasGroup == \E i \in DOMAIN indices : indices[i] \in {"(", "["}

\* the groups of the section w, leftmost first, with the axes each spans
GroupStarts(w) == SelectSeq([i \in 1..Len(w) |-> i], LAMBDA i : w[i] \in {"(", "["})

GroupSize(w, i) ==
    (CHOOSE j \in (i + 1)..Len(w) :
        w[j] \in {")", "]"} /\ \A k \in (i + 1)..(j - 1) : w[k] \notin {")", "]"}) - i - 1

GroupAxes(w, i, offset) ==
    [k \in 1..GroupSize(w, i) |-> offset + Len(Unpunctuated(SubSeq(w, 1, i - 1))) + k - 1]

ExpectedGroupCalls(w, offset) ==
    [n \in 1..Len(GroupStarts(w)) |->
       [op  |-> IF w[GroupStarts(w)[n]] = "(" THEN "symmetrize" ELSE "antisymmetrize",
        pos |-> GroupAxes(w, GroupStarts(w)[n], offset)]]

Traces(h) == SelectSeq(h, LAMBDA c : c.op = "trace")

\* C1: a successful construction calls symmetrize or antisymmetrize once for
\* each group of the notation, over the axes the group's symbols occupy (the
\* number of index symbols to its left in its section, plus the contravariant
\* rank for a covariant group), the contravariant groups leftmost first, then
\* the covariant ones leftmost first, and every trace comes after them.
C1_GroupsApplied ==
    Constructed =>
      LET h == self.tensor.hist
          e == ExpectedGroupCalls(ConSection, 0)
               \o ExpectedGroupCalls(CovSection, tensor.type[1])
      IN  /\ Len(h) >= Len(e)
          /\ \A k \in 1..Len(h) :
               IF k <= Len(e) THEN h[k].op = e[k].op /\ h[k].pos = e[k].pos
                              ELSE h[k].op = "trace"

\* a group above and a group below were applied, the one above first
C1_Witness ==
    /\ Constructed
    /\ tensor.type = <<2, 2>>
    /\ Len(self.tensor.hist) = 2
    /\ self.tensor.hist[1].op = "symmetrize"
    /\ self.tensor.hist[1].pos = <<0, 1>>
    /\ self.tensor.hist[2].op = "antisymmetrize"
    /\ self.tensor.hist[2].pos = <<2, 3>>

\* C2: a successful construction calls trace once for each letter found in
\* both sections; each call names a contravariant and then a covariant
\* position of the tensor as it is then, and the axes removed are, in the
\* numbering of the tensor given, (i, p + j) for the positions i and j of the
\* letter in the contravariant and the covariant symbols.
C2_SelfContraction ==
    Constructed =>
      LET tr == Traces(self.tensor.hist)
          shared == SharedBetween(ConSymbols, CovSymbols)
      IN  /\ Len(tr) = Cardinality(shared)
          /\ \A k \in 1..Len(tr) :
               /\ 0 <= tr[k].pos[1]
               /\ tr[k].pos[1] < tr[k].type[1]
               /\ tr[k].type[1] <= tr[k].pos[2]
               /\ tr[k].pos[2] < tr[k].type[1] + tr[k].type[2]
          /\ {tr[k].axes : k \in 1..Len(tr)}
               = {<<Where(ConSymbols, c), tensor.type[1] + Where(CovSymbols, c)>> :
                    c \in shared}

\* three letters were contracted, written in another order below than above
C2_Witness ==
    /\ Constructed
    /\ Len(Traces(self.tensor.hist)) = 3
    /\ ConSymbols # CovSymbols

\* C3: when no letter comes twice above or twice below, the product returns
\* the tensor product of the two tensors if no letter is shared between one
\* operand's contravariant part and the other's covariant part, and otherwise
\* one contraction over one axis pair for each shared letter, taken in the
\* operands' own numbering, no axis coming in two pairs.
C3_ExpectedPairs ==
    {<<Where(self.con, c), other.tensor.type[1] + Where(other.cov, c)>> :
       c \in SharedBetween(self.con, other.cov)}
    \cup {<<self.tensor.type[1] + Where(self.cov, c), Where(other.con, c)>> :
            c \in SharedBetween(self.cov, other.con)}

Collision ==
    \/ SharedBetween(self.con, other.con) # {}
    \/ SharedBetween(self.cov, other.cov) # {}

\* __mul__ was called and returned or raised
AfterMul == pc = "multiplied" \/ (pc = "raised" /\ other # None)

C3_ProductOrContraction ==
    (AfterMul /\ IsExpression(other) /\ ~Collision) =>
      /\ pc = "multiplied"
      /\ ret.left = self.tensor
      /\ ret.right = other.tensor
      /\ IF C3_ExpectedPairs = {}
         THEN ret.kind = "product"
         ELSE /\ ret.kind = "contract"
              /\ Len(ret.pos1) = Len(ret.pos2)
              /\ Len(ret.pos1) = Cardinality(SharedBetween(self.con, other.cov))
                                 + Cardinality(SharedBetween(self.cov, other.con))
              /\ {<<ret.pos1[i], ret.pos2[i]>> : i \in 1..Len(ret.pos1)} = C3_ExpectedPairs
              /\ \A i, j \in 1..Len(ret.pos1) :
                   i # j => ret.pos1[i] # ret.pos1[j] /\ ret.pos2[i] # ret.pos2[j]

\* a contraction over two pairs, one of each kind
C3_Witness ==
    /\ pc = "multiplied"
    /\ ret.kind = "contract"
    /\ Len(ret.pos1) = 2
    /\ ret.pos1[1] < self.tensor.type[1]
    /\ ret.pos1[2] >= self.tensor.type[1]
    /\ ret.pos2[2] < other.tensor.type[1]

\* C4: the product raises IndexError, and returns nothing, whenever a letter
\* comes in the contravariant parts of both operands or in the covariant
\* parts of both, whatever pairs the other letters form; wildcards alone
\* never make it raise and never come in a pair; an operand that is no
\* TensorWithIndices makes it raise TypeError.
C4_Collisions ==
    AfterMul =>
      /\ ~IsExpression(other) => (exc.cls = "TypeError" /\ ret = None)
      /\ (IsExpression(other) /\ Collision) => (exc.cls = "IndexError" /\ ret = None)
      /\ (IsExpression(other) /\ exc.cls = "IndexError") => Collision
      /\ pc = "multiplied" =>
           \A i \in 1..Len(ret.pos1) :
             /\ (self.con \o self.cov)[ret.pos1[i] + 1] # "."
             /\ (other.con \o other.cov)[ret.pos2[i] + 1] # "."

\* a letter comes twice above although another letter asks for a contraction
C4_Witness ==
    /\ pc = "raised"
    /\ "\n" \notin SetOf(self.con)
    /\ IsExpression(other)
    /\ exc.cls = "IndexError"
    /\ SharedBetween(self.con, other.con) # {}
    /\ SharedBetween(self.con, other.cov) # {}

\* the notations the format allows: sections of index symbols and of groups
\* of two or more index symbols, neither nested nor left open, written CON,
\* ^CON, CON_COV, ^CON_COV, _COV or _COV^CON
WellFormedSection(w) ==
    /\ \A i \in DOMAIN w : w[i] \in Symbols \cup GroupPunct
    /\ \A i \in DOMAIN w :
         w[i] \in {"(", "["} =>
           \E j \in (i + 3)..Len(w) :
             /\ w[j] = (IF w[i] = "(" THEN ")" ELSE "]")
             /\ \A k \in (i + 1)..(j - 1) : w[k] \in Symbols
    /\ \A j \in DOMAIN w :
         w[j] \in {")", "]"} =>
           \E i \in 1..(j - 3) :
             /\ w[i] = (IF w[j] = ")" THEN "(" ELSE "[")
             /\ \A k \in (i + 1)..(j - 1) : w[k] \in Symbols

WellFormed(s) ==
    \/ \E a \in 0..1 : \E k \in a..Len(s) :
         /\ a = 1 => (Len(s) >= 1 /\ s[1] = "^")
         /\ WellFormedSection(SubSeq(s, a + 1, k))
         /\ \/ k = Len(s)
            \/ s[k + 1] = "_" /\ WellFormedSection(SubSeq(s, k + 2, Len(s)))
    \/ /\ Len(s) >= 1
       /\ s[1] = "_"
       /\ \E k \in 1..Len(s) :
            /\ WellFormedSection(SubSeq(s, 2, k))
            /\ \/ k = Len(s)
               \/ s[k + 1] = "^" /\ WellFormedSection(SubSeq(s, k + 2, Len(s)))

\* C5: the constructor raises the format error, and builds nothing, for
\* every notation that, its braces removed, is not of the format.
C5_FormatErrors ==
    (pc # "idle" /\ ~WellFormed(StripBraces(indices))) => (exc = FormatError /\ self = None)

\* the format error is raised for the notations that are not of the format
\* and for no other, a newline at the end of the notation apart
FormatErrorsButForNewline ==
    (pc # "idle" /\ "\n" \notin SetOf(indices)) =>
      (exc = FormatError <=> ~WellFormed(StripBraces(indices)))

\* a letter, not a wildcard, comes twice in the section w
LetterTwice(w) ==
    \E i, j \in DOMAIN w : i < j /\ w[i] = w[j] /\ w[i] \notin GroupPunct \cup {"."}

\* C6: a notation of the format makes the constructor raise the repeated-index
\* error exactly when a letter comes twice above or twice below, wildcards
\* never counting and a letter once above and once below being no error; the
\* tensor's rank has no say in it.
C6_RepeatedIndices ==
    (pc # "idle" /\ exc # FormatError) =>
      (exc = RepeatedError <=> (LetterTwice(ConSection) \/ LetterTwice(CovSection)))

\* a letter twice in a group, for a tensor of another rank
C6_Witness ==
    /\ pc = "raised"
    /\ exc = RepeatedError
    /\ HasGroup
    /\ "." \in SetOf(ConSymbols)
    /\ Len(ConSymbols) # tensor.type[1]

\* C7: past the format and repeated-index checks the constructor succeeds only
\* if the contravariant section holds as many index symbols as the tensor has
\* contravariant indices, and the covariant section as many as it has
\* covariant ones; otherwise it raises IndexError and no operation of the
\* tensor is called.
C7_RankChecked ==
    (pc # "idle" /\ exc \notin {FormatError, RepeatedError}) =>
      /\ pc = "made" =>
           (Len(ConSymbols) = tensor.type[1] /\ Len(CovSymbols) = tensor.type[2])
      /\ (Len(ConSymbols) # tensor.type[1] \/ Len(CovSymbols) # tensor.type[2]) =>
           (pc = "raised" /\ exc.cls = "IndexError" /\ self = None /\ tensor.hist = <<>>)

\* a notation with a group whose covariant section alone is of the wrong length
C7_Witness ==
    /\ pc = "raised"
    /\ exc.cls = "IndexError"
    /\ HasGroup
    /\ Len(ConSymbols) = tensor.type[1]
    /\ Len(CovSymbols) # tensor.type[2]

\* C8: the parts stored by a successful construction hold letters and
\* wildcards only, are as long as the ranks of the tensor wrapped, hold no
\* letter twice and share no letter.
C8_StoredParts ==
    pc = "made" =>
      /\ \A i \in DOMAIN self.con : self.con[i] \in Symbols
      /\ \A i \in DOMAIN self.cov : self.cov[i] \in Symbols
      /\ Len(self.con) = self.tensor.type[1]
      /\ Len(self.cov) = self.tensor.type[2]
      /\ ~LetterTwice(self.con)
      /\ ~LetterTwice(self.cov)
      /\ SharedBetween(self.con, self.cov) = {}

\* C9: after a construction the flag is set exactly when the notation held a
\* group or a letter common to both sections, that is when an operation of
\* the tensor was called; update returns the tensor wrapped when it is set,
\* and else the expression itself, which then wraps the tensor given.
C9_ChangedFlag ==
    Constructed =>
      /\ self.changed <=> (HasGroup \/ SharedBetween(ConSymbols, CovSymbols) # {})
      /\ self.changed <=> (self.tensor.hist # <<>>)
      /\ ~self.changed => self.tensor = tensor
      /\ pc = "updated" =>
           ret = (IF self.changed THEN [kind |-> "tensor", value |-> self.tensor]
                                  ELSE [kind |-> "self", value |-> self])

\* update returned the tensor after a contraction asked for without any group
C9_Witness ==
    /\ pc = "updated"
    /\ ret.kind = "tensor"
    /\ ~HasGroup
    /\ Len(self.tensor.hist) = 1

\* C10: a notation, the same with '^' put before it, the same without its
\* braces, and the same with the covariant section stated first all give the
\* same outcome for the same tensor.
C10_EquivalentWritings ==
    pc # "idle" =>
      LET same(s) == InitResult(tensor, s) = [exc |-> exc, self |-> self]
          cut == Index(indices, "_")
      IN  /\ same(StripBraces(indices))
          /\ "^" \notin SetOf(indices) =>
               /\ same(<<"^">> \o indices)
               /\ Count(indices, "_") = 1 =>
                    same(<<"_">> \o Slice(indices, cut + 1, Len(indices))
                         \o <<"^">> \o Slice(indices, 0, cut))

\* the wildcarded notation was given to the constructor after the notation
AfterWild == self # None /\ pc \in {"wild", "compared", "raised"}

\* every letter of the section w made a wildcard
AllWild(w) == [i \in 1..Len(w) |-> IF w[i] \in Letters THEN "." ELSE w[i]]

\* C11 as stated: for a notation without self-contraction the resolved
\* result equals the resolved result of the notation with '.' for its letters.
C11_ResolvedEqual ==
    (pc = "compared" /\ SharedBetween(ConSymbols, CovSymbols) = {}) => ret.value

\* C11: for a notation without self-contraction, the notation with '.' for
\* its letters is accepted too, calls the same operations of the tensor and
\* wraps the same tensor, with the same flag and with the parts of the first
\* expression, its letters made wildcards; the resolved results are equal
\* exactly when the notation holds a group (both are that tensor) or no
\* letter at all, and else are two expressions whose parts differ.
C11_WildcardTransparency ==
    (AfterWild /\ SharedBetween(ConSymbols, CovSymbols) = {}) =>
      /\ pc # "raised"
      /\ other.tensor = self.tensor
      /\ other.changed = self.changed
      /\ other.con = AllWild(self.con)
      /\ other.cov = AllWild(self.cov)
      /\ pc = "compared" =>
           (ret.value <=> (HasGroup \/ Wildcarded(indices) = indices))

\* letters of a group and letters outside it were made wildcards, and the
\* two resolved tensors are equal
C11_Witness ==
    /\ pc = "compared"
    /\ ret.value
    /\ HasGroup
    /\ self.changed
    /\ self.con # other.con
    /\ self.cov # other.cov
    /\ SharedBetween(ConSymbols, CovSymbols) = {}

\* -(x.update()): the negative of the tensor, or of the expression, that
\* update returns
NegOfResolved(x) ==
    IF x.changed THEN [kind |-> "tensor", value |-> Neg(x.tensor)]
                 ELSE [kind |-> "self", value |-> NegResult(x).self]

\* an operator was applied to the expression self and raised
UnaryRaised == pc = "raised" /\ self # None /\ other = None

C13_NoOpRewrite ==
    (self # None /\ pc \in {"negated", "plussed", "scaled", "raised"}) =>
      /\ pc # "raised"
      /\ other.con = self.con
      /\ other.cov = self.cov
      /\ other.changed = FALSE
      /\ pc = "negated" => other.tensor = Neg(self.tensor)
      /\ pc = "plussed" => other.tensor = Pos(self.tensor)
      /\ pc = "scaled" => \E k \in Scalars : other.tensor = Scale(k, self.tensor)
      /\ self = InitResult(tensor, indices).self

\* the operators build what C13 says for every expression whose parts hold
\* no newline
UnaryNoOpButForNewline ==
    "\n" \notin SetOf(indices) => C13_NoOpRewrite

====
